---- MODULE Spec2Model ----
(***************************************************************************)
(* Verification model of the SYCL path tracer (RT_SYCL/main.cpp and        *)
(* RT_SYCL/box.hpp).                                                       *)
(*                                                                         *)
(* The module holds several specifications over one set of variables:      *)
(*   SpecScan   the nearest-hit scans render_kernel::hit_world, box::hit   *)
(*   SpecScene  main's scene construction and the scan length of render    *)
(*   SpecColor  the bounce loop of render_kernel::color                    *)
(*   Spec       main: render's dispatch of the pixel work-items, the end   *)
(*              of render and save_image                                   *)
(*   SpecKernel the work-items of one work-group, statement by statement   *)
(*   SpecTask   one work-item, statement by statement, while other         *)
(*              work-items draw random numbers                             *)
(* Parametric distances, colours and random values are small naturals.     *)
(***************************************************************************)
EXTENDS Integers, Sequences, FiniteSets, TLC

VARIABLES
  scan,    \* the locals of one nearest-hit scan (hit_world or box::hit)
  scene,   \* main's construction of the sphere vector and its use by render
  col,     \* the locals of one call of render_kernel::color
  disp,    \* main from render to save_image, and the work-items of the dispatch
  kern     \* work-items of render_kernel step by step, with what they share

vars == <<scan, scene, col, disp, kern>>

\* the value of a variable that the running specification does not use
ScanIdle == [pc |-> "idle"]
SceneIdle == [pc |-> "idle"]
ColIdle == [pc |-> "idle"]
DispIdle == [main_pc |-> "idle"]
KernIdle == [items |-> <<>>]

\* ------------------------------------------------------------------------
\* Bounds of the exploration
\* ------------------------------------------------------------------------
\* largest parametric distance t at which a primitive can be intersected
MaxT == 3
\* largest number of spheres handed to hit_world in the scan specification
MaxPrims == 3
\* largest max_depth handed to color in the colour specification
MaxDepth == 3
\* The templates render and render_kernel are explored at small
\* instantiations of their parameters (main instantiates width = 800 and
\* height = 480) and of the work-group size (constants::TileX = TileY = 8).
width == 3
height == 2
TileX == 1
TileY == 2
\* main instantiates samples = 100 and render sets depth = 5
samples == 2
depth == 2
\* most random numbers other work-items draw while one work-item is watched
MaxOtherDraws == 3

\* ------------------------------------------------------------------------
\* Helpers
\* ------------------------------------------------------------------------
SetMin(S) == CHOOSE m \in S : \A o \in S : m <= o

Reverse(s) == [k \in 1..Len(s) |-> s[Len(s) + 1 - k]]

\* ------------------------------------------------------------------------
\* Scene construction in main and the scan length handed to render
\* ------------------------------------------------------------------------
\* constexpr auto num_spheres = 460
num_spheres == 460
\* for (int a = -11; a < 11; a++), and the same for b
GridLo == -11
GridHi == 11

\* std::vector<sphere> spheres, empty; only its size is tracked
SceneInit ==
  /\ scan = ScanIdle /\ col = ColIdle /\ disp = DispIdle /\ kern = KernIdle
  /\ scene = [pc |-> "ground", a |-> GridLo, b |-> GridLo, size |-> 0,
              i |-> 0, out_of_bounds |-> FALSE]

\* spheres.emplace_back(vec3{0, -1000, 0}, 1000, Lambertian, t)
GroundSphere ==
  /\ scene.pc = "ground"
  /\ scene' = [scene EXCEPT !.size = scene.size + 1, !.pc = "grid"]
  /\ UNCHANGED <<scan, col, disp, kern>>

\* the grid position after (a, b) in the nested loops
GridAdvance(st) ==
  IF st.b + 1 < GridHi THEN [st EXCEPT !.b = st.b + 1]
  ELSE IF st.a + 1 < GridHi THEN [st EXCEPT !.a = st.a + 1, !.b = GridLo]
  ELSE [st EXCEPT !.a = GridHi, !.b = GridLo, !.pc = "large"]

\* the body of the grid loop at (a, b): far is the outcome of
\* length(center - (4, 0.2, 0)) > 0.9, choose_mat the draw in hundredths
grid_cell(st, far, choose_mat) ==
  IF far /\ choose_mat < 80
  THEN GridAdvance([st EXCEPT !.size = st.size + 1])
  ELSE IF far /\ choose_mat < 95
  THEN GridAdvance([st EXCEPT !.size = st.size + 1])
  ELSE GridAdvance(st)

\* the draws of choose_mat that take different branches
ChooseMats == {0, 80, 95}

\* center = (a + 0.9 * random_double(), 0.2, b + 0.9 * random_double()) can
\* lie within 0.9 of (4, 0.2, 0) only in these cells; it can lie farther
\* away in every cell
CanBeNear(a, b) == a \in 3..4 /\ b \in (-1)..0

GridCell ==
  /\ scene.pc = "grid"
  /\ \E far \in BOOLEAN, choose_mat \in ChooseMats :
       /\ ~far => CanBeNear(scene.a, scene.b)
       /\ scene' = grid_cell(scene, far, choose_mat)
  /\ UNCHANGED <<scan, col, disp, kern>>

\* the three emplace_back calls after the loops
LargeSpheres ==
  /\ scene.pc = "large"
  /\ scene' = [scene EXCEPT !.size = scene.size + 3, !.pc = "render"]
  /\ UNCHANGED <<scan, col, disp, kern>>

\* one iteration of hit_world's loop over spheres.data(): index i is read,
\* which lies past the end of the vector when i >= size
SceneScanIter ==
  /\ scene.pc = "render" /\ scene.i < num_spheres
  /\ scene' = [scene EXCEPT !.i = scene.i + 1,
                 !.out_of_bounds = scene.out_of_bounds \/ scene.i >= scene.size]
  /\ UNCHANGED <<scan, col, disp, kern>>

SceneScanReturn ==
  /\ scene.pc = "render" /\ scene.i >= num_spheres
  /\ scene' = [scene EXCEPT !.pc = "done"]
  /\ UNCHANGED <<scan, col, disp, kern>>

SceneNext ==
  GroundSphere \/ GridCell \/ LargeSpheres \/ SceneScanIter \/ SceneScanReturn

SpecScene == SceneInit /\ [][SceneNext]_vars

\* C9: the constructed collection has exactly num_spheres primitives, so
\* the scan reads no index past the end and visits every primitive.
SceneSizeIsScanLength ==
  scene.pc \in {"render", "done"} =>
    /\ scene.size = num_spheres
    /\ ~scene.out_of_bounds

\* ------------------------------------------------------------------------
\* Path integrator: render_kernel::color
\* ------------------------------------------------------------------------
\* A colour is a triple of naturals and products are exact. A ray is known
\* by hit_pt = 0.5 * (unit_direction.y + 1), counted in halves: 0, 1 or 2.
Black == <<0, 0, 0>>
White == <<1, 1, 1>>
Mul(c, d) == <<c[1] * d[1], c[2] * d[2], c[3] * d[3]>>

Rays == 0..2

\* albedos the materials of the scene can return
Albedos == {<<1, 1, 1>>, <<2, 1, 0>>, <<1, 2, 3>>}

\* (1.0 - hit_pt) * vec3(1, 1, 1) + hit_pt * vec3(0.5, 0.7, 1.0), in
\* twentieths: hit_pt is h / 2 and the two colours are counted in tenths
Background(h) ==
  <<(2 - h) * 10 + h * 5, (2 - h) * 10 + h * 7, (2 - h) * 10 + h * 10>>

\* hit_record::scatter_material(r_in, attenuation, scattered): the running
\* attenuation comes in by reference and leaves multiplied by the albedo;
\* the result tells whether the ray was scattered or absorbed
ScatterMaterial(attenuation, sc) ==
  [ok |-> sc.ok, attenuation |-> Mul(attenuation, sc.albedo),
   scattered |-> sc.scattered]

\* the loop body of color that returns the bare background on a miss
color_iter_drops_attenuation(st, hit, sc) ==
  IF hit
  THEN LET m == ScatterMaterial(st.cur_attenuation, sc) IN
       IF m.ok
       THEN [st EXCEPT !.i = st.i + 1, !.cur_ray = m.scattered,
                       !.cur_attenuation = m.attenuation,
                       !.scans = st.scans + 1]
       ELSE [st EXCEPT !.pc = "absorbed", !.result = Black,
                       !.cur_attenuation = m.attenuation,
                       !.scans = st.scans + 1]
  ELSE [st EXCEPT !.pc = "escaped", !.scans = st.scans + 1,
                  !.result = Background(st.cur_ray)]

\* the loop body of color with a loop counter that never advances
color_iter_no_advance(st, hit, sc) ==
  IF hit
  THEN LET m == ScatterMaterial(st.cur_attenuation, sc) IN
       IF m.ok
       THEN [st EXCEPT !.cur_ray = m.scattered,
                       !.cur_attenuation = m.attenuation,
                       !.scans = st.scans + 1]
       ELSE [st EXCEPT !.pc = "absorbed", !.result = Black,
                       !.cur_attenuation = m.attenuation,
                       !.scans = st.scans + 1]
  ELSE [st EXCEPT !.pc = "escaped", !.scans = st.scans + 1,
                  !.result = Mul(st.cur_attenuation, Background(st.cur_ray))]

\* one iteration of the bounce loop of color: hit is the result of
\* hit_world(cur_ray, 0.001, infinity, rec, spheres), sc what the material
\* of rec does with the ray
color_iter(st, hit, sc) ==
  IF hit
  THEN LET m == ScatterMaterial(st.cur_attenuation, sc) IN
       IF m.ok
       THEN [st EXCEPT !.i = st.i + 1, !.cur_ray = m.scattered,
                       !.cur_attenuation = m.attenuation,
                       !.scans = st.scans + 1]
       ELSE [st EXCEPT !.pc = "absorbed", !.result = Black,
                       !.cur_attenuation = m.attenuation,
                       !.scans = st.scans + 1]
  ELSE [st EXCEPT !.pc = "escaped", !.scans = st.scans + 1,
                  !.result = Mul(st.cur_attenuation, Background(st.cur_ray))]

\* leaving the loop with what is left of the attenuation
color_exhausted_keeps_attenuation(st) ==
  [st EXCEPT !.pc = "exhausted", !.result = st.cur_attenuation]

\* the return after the loop: not returned within max_depth
color_exhausted(st) == [st EXCEPT !.pc = "exhausted", !.result = Black]

\* the locals of color on entry
ColorEntry(r, max_depth) ==
  [pc |-> "loop", max_depth |-> max_depth, i |-> 0, cur_ray |-> r,
   cur_attenuation |-> White, result |-> "none", scans |-> 0]

\* what a material can do with a ray
Scatters == [ok : BOOLEAN, albedo : Albedos, scattered : Rays]

\* col.call holds the locals of the call; col.hist records the albedos of
\* its successful scatters
ColorInit ==
  /\ scan = ScanIdle /\ scene = SceneIdle /\ disp = DispIdle /\ kern = KernIdle
  /\ \E r \in Rays, d \in 0..MaxDepth :
       col = [call |-> ColorEntry(r, d), hist |-> <<>>]

ColorIter ==
  /\ col.call.pc = "loop" /\ col.call.i < col.call.max_depth
  /\ \E hit \in BOOLEAN, sc \in Scatters :
       /\ ~hit => sc = [ok |-> FALSE, albedo |-> White, scattered |-> 0]
       /\ col' = [call |-> color_iter(col.call, hit, sc),
                  hist |-> IF hit /\ sc.ok THEN Append(col.hist, sc.albedo)
                           ELSE col.hist]
  /\ UNCHANGED <<scan, scene, disp, kern>>

ColorExhausted ==
  /\ col.call.pc = "loop" /\ col.call.i >= col.call.max_depth
  /\ col' = [col EXCEPT !.call = color_exhausted(col.call)]
  /\ UNCHANGED <<scan, scene, disp, kern>>

ColorNext == ColorIter \/ ColorExhausted

SpecColor == ColorInit /\ [][ColorNext]_vars

RECURSIVE Product(_)
Product(h) == IF h = <<>> THEN White ELSE Mul(Head(h), Product(Tail(h)))

\* C5: when every one of the max_depth iterations hit and scattered, color
\* returns black whatever attenuation was accumulated; with max_depth = 0
\* it returns black at once.
ExhaustedIsBlack ==
  (col.call.pc \in {"absorbed", "escaped", "exhausted"}
     /\ Len(col.hist) = col.call.max_depth)
    => col.call.result = Black

\* C5 witness: a path that scattered max_depth >= 2 times, holds a non-black
\* attenuation and has returned
ExhaustedIsBlackWitness ==
  /\ col.call.pc = "exhausted" /\ col.call.max_depth >= 2
  /\ Len(col.hist) = col.call.max_depth
  /\ col.call.cur_attenuation = <<4, 1, 0>>

\* C8: a path that scatters k < max_depth times and then misses returns the
\* product of the k albedos times the background of its last ray; a path
\* whose scatter is absorbed returns black.
AttenuationIsProduct ==
  /\ col.call.pc = "escaped" =>
       /\ Len(col.hist) < col.call.max_depth
       /\ col.call.result = Mul(Product(col.hist), Background(col.call.cur_ray))
  /\ col.call.pc = "absorbed" => col.call.result = Black

\* C8 witness: a path that scattered twice with different albedos and then
\* escaped on a ray that is neither straight up nor straight down
AttenuationIsProductWitness ==
  /\ col.call.pc = "escaped" /\ col.call.cur_ray = 1
  /\ col.hist = <<(<<2, 1, 0>>), (<<1, 2, 3>>)>>

\* ------------------------------------------------------------------------
\* The dispatch: render, the work-items of render_kernel, save_image
\* ------------------------------------------------------------------------
\* constexpr auto num_pixels = width * height
num_pixels == width * height

\* sycl::nd_range<2>(global = (width, height), local = (TileX, TileY)) is
\* a valid index space only when the local range divides the global one
ValidRange == width % TileX = 0 /\ height % TileY = 0

\* the work-items of the index space: a work-group and a place inside it
Items ==
  {it \in [gx : 0..(width - 1), gy : 0..(height - 1),
           lx : 0..(TileX - 1), ly : 0..(TileY - 1)] :
     it.gx < width \div TileX /\ it.gy < height \div TileY}

\* item.get_global_id(0) and item.get_global_id(1)
x_coord(it) == it.gx * TileX + it.lx
y_coord(it) == it.gy * TileY + it.ly

\* a linear index that strides by the height
pixel_index_height_stride(x, y) == y * height + x
\* a linear index with the coordinates exchanged
pixel_index_exchanged(x, y) == x * width + y

\* const auto pixel_index = y_coord * width + x_coord
pixel_index(x, y) == y * width + x

\* auto pixel_index = y * width + x in save_image
save_pixel_index(x, y) == y * width + x

\* the averaged colour the sample loop of the work-item at (x, y) yields
FinalColor(x, y) == <<"color", x, y>>

\* the frame buffer as std::vector<vec3> fb(num_pixels) leaves it
FreshBuffer == [c \in 0..(num_pixels - 1) |-> "initial"]

\* disp.frame is the buffer frame_buf as the device sees it, disp.fb the
\* host vector fb; disp.writers logs, per cell, the work-items that wrote
\* it; disp.stray logs the writes outside the buffer; disp.out logs what
\* save_image read
DispInit ==
  /\ scan = ScanIdle /\ scene = SceneIdle /\ col = ColIdle /\ kern = KernIdle
  /\ disp = [main_pc |-> "render",
             items |-> [it \in Items |-> "unsubmitted"],
             final_color |-> [it \in Items |-> "none"],
             frame |-> FreshBuffer, fb |-> FreshBuffer,
             writers |-> [c \in 0..(num_pixels - 1) |-> <<>>],
             stray |-> {},
             y |-> height - 1, x |-> 0, out |-> <<>>]

\* render up to the end of queue.submit: the buffers are made over fb_data
\* and the kernel is enqueued over the index space
RenderSubmit ==
  /\ disp.main_pc = "render"
  /\ disp' = IF ValidRange
             THEN [disp EXCEPT !.main_pc = "render_exit",
                               !.items = [it \in Items |-> "ready"]]
             ELSE [disp EXCEPT !.main_pc = "terminated"]
  /\ UNCHANGED <<scan, scene, col, kern>>

\* operator() from its entry to the end of the sample loop
KernelSamples(it) ==
  /\ disp.items[it] = "ready"
  /\ disp' = [disp EXCEPT !.items[it] = "computed",
                !.final_color[it] = FinalColor(x_coord(it), y_coord(it))]
  /\ UNCHANGED <<scan, scene, col, kern>>

\* m_frame_ptr[pixel_index] = final_color
KernelWrite(it) ==
  /\ disp.items[it] = "computed"
  /\ LET c == pixel_index(x_coord(it), y_coord(it)) IN
       disp' = IF c \in 0..(num_pixels - 1)
               THEN [disp EXCEPT !.items[it] = "done",
                       !.frame[c] = disp.final_color[it],
                       !.writers[c] = Append(disp.writers[c], it)]
               ELSE [disp EXCEPT !.items[it] = "done",
                       !.stray = disp.stray \cup {c}]
  /\ UNCHANGED <<scan, scene, col, kern>>

AllDone == \A it \in Items : disp.items[it] = "done"

\* the end of render without waiting for the kernel
buffers_destroyed_at_once(st) == [st EXCEPT !.main_pc = "save_image", !.fb = st.frame]

\* the closing brace of render: sphere_buf and frame_buf are destroyed;
\* the destructor of frame_buf waits for the kernel and copies the buffer
\* back to fb_data
buffers_destroyed(st) ==
  IF \A it \in Items : st.items[it] = "done"
  THEN [st EXCEPT !.main_pc = "save_image", !.fb = st.frame]
  ELSE st

RenderExit ==
  /\ disp.main_pc = "render_exit"
  /\ buffers_destroyed(disp) # disp
  /\ disp' = buffers_destroyed(disp)
  /\ UNCHANGED <<scan, scene, col, kern>>

\* one iteration of the inner loop of save_image
SaveImagePixel ==
  /\ disp.main_pc = "save_image" /\ disp.y >= 0
  /\ LET c == save_pixel_index(disp.x, disp.y) IN
       disp' = [disp EXCEPT
                  !.out = Append(disp.out, [x |-> disp.x, y |-> disp.y,
                                            value |-> disp.fb[c]]),
                  !.x = IF disp.x + 1 < width THEN disp.x + 1 ELSE 0,
                  !.y = IF disp.x + 1 < width THEN disp.y ELSE disp.y - 1]
  /\ UNCHANGED <<scan, scene, col, kern>>

\* save_image returns and main returns 0
MainReturn ==
  /\ disp.main_pc = "save_image" /\ disp.y < 0
  /\ disp' = [disp EXCEPT !.main_pc = "done"]
  /\ UNCHANGED <<scan, scene, col, kern>>

Next ==
  \/ RenderSubmit
  \/ \E it \in Items : KernelSamples(it)
  \/ \E it \in Items : KernelWrite(it)
  \/ RenderExit
  \/ SaveImagePixel
  \/ MainReturn

Spec == DispInit /\ [][Next]_vars

\* C2: no cell is written by more than one work-item; the work-item with
\* global id (x, y) writes once, to cell y * width + x, and only there.
WriteOnce ==
  /\ \A c \in 0..(num_pixels - 1) : Len(disp.writers[c]) <= 1
  /\ \A it \in Items :
       LET c == y_coord(it) * width + x_coord(it) IN
       /\ disp.items[it] = "done" => disp.writers[c] = <<it>>
       /\ disp.items[it] # "done" =>
            \A d \in 0..(num_pixels - 1) :
              \A k \in 1..Len(disp.writers[d]) : disp.writers[d][k] # it

\* C2 witness: two work-items of different rows have both written while a
\* third has not yet
WriteOnceWitness ==
  \E i1 \in Items, i2 \in Items, i3 \in Items :
    /\ y_coord(i1) # y_coord(i2)
    /\ disp.items[i1] = "done" /\ disp.items[i2] = "done"
    /\ disp.items[i3] = "computed"

\* C3: save_image reads nothing before every work-item has completed and
\* its colour is in the host frame buffer; render returns only then.
BarrierBeforeSave ==
  (disp.main_pc \in {"save_image", "done"} \/ disp.out # <<>>) =>
    /\ AllDone
    /\ \A it \in Items :
         disp.fb[y_coord(it) * width + x_coord(it)] = disp.final_color[it]
    /\ \A k \in 1..Len(disp.out) :
         disp.out[k].value = FinalColor(disp.out[k].x, disp.out[k].y)

\* C3 witness: save_image has read every cell and main has returned
BarrierBeforeSaveWitness ==
  disp.main_pc = "done" /\ Len(disp.out) = num_pixels /\ AllDone

\* C10: the work-items write inside the buffer only, and once all have
\* completed every cell holds the colour of exactly one work-item, the one
\* whose global id is the (x, y) that save_image reads the cell for.
DispatchCoversBuffer ==
  /\ disp.stray = {}
  /\ AllDone /\ disp.main_pc # "idle" =>
       \A c \in 0..(num_pixels - 1) :
         /\ Len(disp.writers[c]) = 1
         /\ disp.frame[c] # "initial"
  /\ \A k \in 1..Len(disp.out) :
       /\ disp.out[k].value # "initial"
       /\ disp.out[k].value = FinalColor(disp.out[k].x, disp.out[k].y)
  /\ disp.main_pc = "done" =>
       {<<disp.out[k].x, disp.out[k].y>> : k \in 1..Len(disp.out)}
         = (0..(width - 1)) \X (0..(height - 1))

\* C10 witness: work-items of more than one work-group have run, all cells
\* are written and save_image has read them all
DispatchCoversBufferWitness ==
  /\ disp.main_pc = "done" /\ Len(disp.out) = num_pixels
  /\ \E i1 \in Items, i2 \in Items :
       i1.gx # i2.gx /\ disp.items[i1] = "done" /\ disp.items[i2] = "done"

\* ------------------------------------------------------------------------
\* A work-item of render_kernel, statement by statement
\* ------------------------------------------------------------------------
\* random_double(): takes no generator and no seed, so what it draws from
\* is one generator shared by its callers; gen counts the draws made so far
\* and the value drawn is a function of that count
random_double(gen) == [value |-> (gen + gen \div 3) % 3, gen |-> gen + 1]

\* random_in_unit_disk(): one draw from the same generator
random_in_unit_disk(gen) == random_double(gen)

\* origin, lower_left_corner, horizontal, vertical as the constructor of
\* render_kernel leaves them: it initialises the two accessors only
CameraUnset ==
  {[origin |-> z, lower_left_corner |-> z, horizontal |-> z, vertical |-> z] :
     z \in {"zero", "indeterminate"}}

\* the four members as get_ray assigns them
CameraDerived ==
  [origin |-> <<13, 2, 3>>,
   lower_left_corner |-> "origin - horizontal/2 - vertical/2 - focus_dist*w",
   horizontal |-> "focus_dist * viewport_width * u",
   vertical |-> "focus_dist * viewport_height * v"]

\* the spheres behind m_hitable_ptr
TheSpheres == "spheres"

\* the direction class of ray(origin + offset, lower_left_corner
\* + s*horizontal + t*vertical - origin - offset)
RayThrough(u, v, rd) == (u.coord + u.jitter + v.coord + v.jitter + rd) % 3

\* hit_world on the scene: a ray that does not point upwards hits a sphere
SceneHit(ray) == ray # 2

\* what the material of the sphere hit by ray does, given its random draw
MaterialScatter(ray, r) ==
  [ok |-> ~(ray = 1 /\ r = 0),
   albedo |-> IF ray = 0 THEN <<2, 1, 0>> ELSE <<1, 2, 3>>,
   scattered |-> (ray + r + 1) % 3]

Add(c, d) == <<c[1] + d[1], c[2] + d[2], c[3] + d[3]>>

\* a work-item of the index space before it runs
ItemEntry(it) ==
  [x_coord |-> x_coord(it), y_coord |-> y_coord(it), pc |-> "entry",
   pixel_index |-> -1, i |-> 0, u |-> "none", v |-> "none", call |-> "none",
   final_color |-> Black, scans |-> 0, steps |-> 0]

\* the test of the sample loop: the next statement of the work-item
SampleLoop(t) == [t EXCEPT !.pc = IF t.i < samples THEN "jitter_u" ELSE "write"]

\* final_color += color(...) and i++, once color has returned
Accumulate(t, call) ==
  SampleLoop([t EXCEPT !.final_color = Add(t.final_color, call.result),
                       !.i = t.i + 1, !.call = call,
                       !.scans = t.scans + call.scans])

\* ray r = get_ray(u, v): the four camera members are assigned, the lens
\* offset is drawn and the ray is made
get_ray(t, sh) ==
  LET d == random_in_unit_disk(sh.gen) IN
  [t |-> [t EXCEPT !.pc = "color",
                   !.call = ColorEntry(RayThrough(t.u, t.v, d.value), depth)],
   sh |-> [sh EXCEPT !.gen = d.gen, !.cam = CameraDerived]]

\* the statements of operator() before the sample loop
item_entry(t, sh) ==
  [t |-> SampleLoop([t EXCEPT
            !.pixel_index = pixel_index(t.x_coord, t.y_coord)]),
   sh |-> sh]

\* const auto u = (x_coord + random_double()) / width
jitter_u(t, sh) ==
  LET d == random_double(sh.gen) IN
  [t |-> [t EXCEPT !.pc = "jitter_v",
                   !.u = [coord |-> t.x_coord, jitter |-> d.value]],
   sh |-> [sh EXCEPT !.gen = d.gen]]

\* const auto v = (y_coord + random_double()) / height
jitter_v(t, sh) ==
  LET d == random_double(sh.gen) IN
  [t |-> [t EXCEPT !.pc = "get_ray",
                   !.v = [coord |-> t.y_coord, jitter |-> d.value]],
   sh |-> [sh EXCEPT !.gen = d.gen]]

\* final_color += color(r, spheres, depth), one iteration of the bounce
\* loop at a time: the scan of the scene, then the draw of the material
color_step(t, sh) ==
  IF t.call.i < t.call.max_depth
  THEN LET hit == SceneHit(t.call.cur_ray)
           d == random_double(sh.gen)
           c == color_iter(t.call, hit, MaterialScatter(t.call.cur_ray, d.value))
       IN [t |-> IF c.pc = "loop" THEN [t EXCEPT !.call = c]
                 ELSE Accumulate(t, c),
           sh |-> IF hit THEN [sh EXCEPT !.gen = d.gen] ELSE sh]
  ELSE [t |-> Accumulate(t, color_exhausted(t.call)), sh |-> sh]

\* final_color /= samples; m_frame_ptr[pixel_index] = final_color
frame_write(t, sh) ==
  [t |-> [t EXCEPT !.pc = "done"],
   sh |-> [sh EXCEPT !.frame[t.pixel_index] =
              [sum |-> t.final_color, over |-> samples]]]

\* one statement of operator(): t is the work-item, sh what it shares with
\* the others (the generator, the members of the kernel object, the
\* spheres, the frame buffer); t.steps counts the statements executed
item_step(t, sh) ==
  LET t1 == [t EXCEPT !.steps = t.steps + 1] IN
  CASE t.pc = "entry" -> item_entry(t1, sh)
    [] t.pc = "jitter_u" -> jitter_u(t1, sh)
    [] t.pc = "jitter_v" -> jitter_v(t1, sh)
    [] t.pc = "get_ray" -> get_ray(t1, sh)
    [] t.pc = "color" -> color_step(t1, sh)
    [] t.pc = "write" -> frame_write(t1, sh)

\* the work-items of the first work-group
FirstGroup == {it \in Items : it.gx = 0 /\ it.gy = 0}

\* what the work-items share when the kernel starts; seed is the state the
\* generator was left in by main's scene construction
SharedEntry(seed, cam) ==
  [gen |-> seed, cam |-> cam, spheres |-> TheSpheres,
   frame |-> [c \in 0..(num_pixels - 1) |-> "initial"]]

\* kern.start keeps the shared state the kernel started from
KernelInit ==
  /\ scan = ScanIdle /\ scene = SceneIdle /\ col = ColIdle /\ disp = DispIdle
  /\ \E seed \in 0..1, cam \in CameraUnset :
       kern = [items |-> [it \in FirstGroup |-> ItemEntry(it)],
               sh |-> SharedEntry(seed, cam),
               start |-> SharedEntry(seed, cam), others |-> 0]

\* the work-item it executes its next statement, which is the one at pc
ItemStep(it, pc) ==
  /\ kern.items[it].pc = pc
  /\ LET r == item_step(kern.items[it], kern.sh) IN
       kern' = [kern EXCEPT !.items[it] = r.t, !.sh = r.sh]
  /\ UNCHANGED <<scan, scene, col, disp>>

ItemEnters == \E it \in DOMAIN kern.items : ItemStep(it, "entry")
ItemJittersU == \E it \in DOMAIN kern.items : ItemStep(it, "jitter_u")
ItemJittersV == \E it \in DOMAIN kern.items : ItemStep(it, "jitter_v")
ItemGetsRay == \E it \in DOMAIN kern.items : ItemStep(it, "get_ray")
ItemBounces == \E it \in DOMAIN kern.items : ItemStep(it, "color")
ItemWrites == \E it \in DOMAIN kern.items : ItemStep(it, "write")

KernelNext ==
  \/ ItemEnters
  \/ ItemJittersU
  \/ ItemJittersV
  \/ ItemGetsRay
  \/ ItemBounces
  \/ ItemWrites

SpecKernel == KernelInit /\ [][KernelNext]_vars

\* one work-item of the index space, watched alone
TaskInit ==
  /\ scan = ScanIdle /\ scene = SceneIdle /\ col = ColIdle /\ disp = DispIdle
  /\ \E it \in Items, seed \in 0..1, cam \in CameraUnset :
       kern = [items |-> [j \in {it} |-> ItemEntry(it)],
               sh |-> SharedEntry(seed, cam),
               start |-> SharedEntry(seed, cam), others |-> 0]

\* another work-item draws a random number: the generator moves on
OtherItemDraws ==
  /\ kern.others < MaxOtherDraws
  /\ kern' = [kern EXCEPT !.sh.gen = random_double(kern.sh.gen).gen,
                          !.others = kern.others + 1]
  /\ UNCHANGED <<scan, scene, col, disp>>

TaskNext == KernelNext \/ OtherItemDraws

SpecTask == TaskInit /\ [][TaskNext]_vars

\* the whole of operator() for one work-item, from its next statement on
RECURSIVE run_item(_, _)
run_item(t, sh) ==
  IF t.pc = "done" THEN sh
  ELSE run_item(item_step(t, sh).t, item_step(t, sh).sh)

\* the work-items of its, one after the other from first to last
RECURSIVE run_in_order(_, _)
run_in_order(its, sh) ==
  IF its = <<>> THEN sh
  ELSE run_in_order(Tail(its), run_item(ItemEntry(Head(its)), sh))

\* the work-items of S by ascending pixel index
RECURSIVE ScanOrder(_)
ScanOrder(S) ==
  IF S = {} THEN <<>>
  ELSE LET first == CHOOSE it \in S : \A o \in S :
                      pixel_index(x_coord(it), y_coord(it))
                        <= pixel_index(x_coord(o), y_coord(o))
       IN <<first>> \o ScanOrder(S \ {first})

KernelDone == \A it \in DOMAIN kern.items : kern.items[it].pc = "done"

\* C4: whatever the order in which the work-items execute, every pixel
\* ends with the colour it has when they execute in scan order; no
\* work-item's colour depends on state another work-item changes.
PixelOrderIndependent ==
  (kern.items # <<>> /\ KernelDone) =>
    kern.sh.frame = run_in_order(ScanOrder(DOMAIN kern.items), kern.start).frame

\* C7: no statement of a work-item changes the spheres or the camera
\* members origin, lower_left_corner, horizontal and vertical.
CameraAndSceneReadOnly ==
  [][kern.items # <<>> =>
       /\ kern'.sh.cam = kern.sh.cam
       /\ kern'.sh.spheres = kern.sh.spheres]_vars

\* C6: a work-item runs exactly samples sample iterations, every path makes
\* at most depth scans, so it makes at most samples * depth scans in all;
\* it always has a next statement until it has written its cell, and it
\* has executed a bounded number of statements.
TaskTerminates ==
  \A it \in DOMAIN kern.items :
    LET t == kern.items[it] IN
    /\ t.i <= samples
    /\ t.pc = "color" =>
         /\ t.call.i <= depth /\ t.call.scans <= depth
         /\ t.scans + t.call.scans <= samples * depth
    /\ t.scans <= t.i * depth
    /\ t.steps <= samples * (depth + 4) + 2
    /\ t.pc = "done" =>
         /\ t.i = samples
         /\ kern.sh.frame[t.pixel_index] = [sum |-> t.final_color, over |-> samples]
    /\ t.pc # "done" => ENABLED KernelNext

\* C6 witness: a work-item has finished after samples * depth scans
TaskTerminatesWitness ==
  \E it \in DOMAIN kern.items :
    /\ kern.items[it].pc = "done"
    /\ kern.items[it].scans = samples * depth
    /\ kern.others > 0

\* ------------------------------------------------------------------------
\* Nearest-hit scans
\* ------------------------------------------------------------------------
\* material_t tags used by the scene (main.cpp) and the box faces
Materials == {"Lambertian", "Metal"}

\* a hit_record left as declared (hit_record rec;), never assigned
NoRec == [t |-> 0, id |-> 0, mat |-> "none"]

\* the distances at which primitive s is intersected inside the open
\* interval (min, max)
Inside(s, min, max) == {t \in s.roots : min < t /\ t < max}

\* sphere::hit(r, min, max, rec): the smallest root inside (min, max), or
\* no hit; on a hit the record is filled with the sphere's data
SphereHit(s, min, max) ==
  IF Inside(s, min, max) = {}
  THEN [hit |-> FALSE, rec |-> NoRec]
  ELSE [hit |-> TRUE,
        rec |-> [t |-> SetMin(Inside(s, min, max)), id |-> s.id, mat |-> s.mat]]

\* xy_rect / xz_rect / yz_rect ::hit(r, min, max, rec, material): the plane
\* distance if it lies inside (min, max) and inside the rectangle
RectHit(s, min, max) == SphereHit(s, min, max)

\* hit_world with the tightening of the upper bound left out
hit_world_iter_no_tighten(st) ==
  LET h == SphereHit(st.prims[st.i + 1], st.min, st.closest_so_far) IN
  IF h.hit
  THEN [st EXCEPT !.i = st.i + 1, !.hit_anything = TRUE,
                  !.temp_rec = h.rec, !.rec = h.rec]
  ELSE [st EXCEPT !.i = st.i + 1]

\* one iteration of the loop of hit_world
hit_world_iter(st) ==
  LET h == SphereHit(st.prims[st.i + 1], st.min, st.closest_so_far) IN
  IF h.hit
  THEN [st EXCEPT !.i = st.i + 1, !.hit_anything = TRUE,
                  !.closest_so_far = h.rec.t,
                  !.temp_rec = h.rec, !.rec = h.rec]
  ELSE [st EXCEPT !.i = st.i + 1]

\* one iteration of the range-for of box::hit
box_hit_iter(st) ==
  LET h == RectHit(st.prims[st.i + 1], st.min, st.closest_so_far) IN
  IF h.hit
  THEN [st EXCEPT !.i = st.i + 1, !.hit_anything = TRUE,
                  !.closest_so_far = h.rec.t,
                  !.temp_rec = h.rec, !.rec = h.rec,
                  !.temp_material_type = h.rec.mat,
                  !.hit_material_type = h.rec.mat]
  ELSE [st EXCEPT !.i = st.i + 1]

scan_iter(st) == IF st.kind = "world" THEN hit_world_iter(st) ELSE box_hit_iter(st)

\* the locals of a scan on entry: hit_anything = false, closest_so_far = max;
\* n is the scan length, num_spheres for hit_world and sides.size() for the
\* box, here the length of the collection handed in
ScanEntry(kind, prims, min, max) ==
  [kind |-> kind, prims |-> prims, n |-> Len(prims), min |-> min, max |-> max,
   i |-> 0, hit_anything |-> FALSE, closest_so_far |-> max,
   temp_rec |-> NoRec, rec |-> NoRec,
   temp_material_type |-> "none", hit_material_type |-> "none", pc |-> "loop"]

\* the whole scan, from any point of the loop to its return
RECURSIVE scan_run(_)
scan_run(st) ==
  IF st.i < st.n THEN scan_run(scan_iter(st)) ELSE [st EXCEPT !.pc = "ret"]

\* the number of faces the constructor of box puts into sides
BoxSides == 6

\* spheres as hit_world sees them: up to two roots along the ray
SphereShapes == {r \in SUBSET (1..MaxT) : Cardinality(r) <= 2}
\* rectangles as box::hit sees them: at most one plane crossing
RectShapes == {r \in SUBSET (1..MaxT) : Cardinality(r) <= 1}

Worlds == UNION {[1..n -> SphereShapes] : n \in 0..MaxPrims}

\* the spheres of a world, alternating between the two materials main uses
MkPrims(f) ==
  [k \in DOMAIN f |->
    [id |-> k, roots |-> f[k],
     mat |-> IF k % 2 = 1 THEN "Lambertian" ELSE "Metal"]]
MkSides(f, m) == [k \in DOMAIN f |-> [id |-> k, roots |-> f[k], mat |-> m]]

\* the intervals the scans are called with; MaxT + 1 stands for infinity
Intervals == {<<lo, hi>> \in (0..1) \X (2..(MaxT + 1)) : lo < hi}

ScanInit ==
  /\ scene = SceneIdle /\ col = ColIdle /\ disp = DispIdle /\ kern = KernIdle
  /\ \E iv \in Intervals :
       \/ \E f \in Worlds : scan = ScanEntry("world", MkPrims(f), iv[1], iv[2])
       \/ \E f \in [1..BoxSides -> RectShapes], m \in Materials :
            scan = ScanEntry("box", MkSides(f, m), iv[1], iv[2])

HitWorldIter ==
  /\ scan.kind = "world" /\ scan.pc = "loop" /\ scan.i < scan.n
  /\ scan' = hit_world_iter(scan)
  /\ UNCHANGED <<scene, col, disp, kern>>

HitWorldReturn ==
  /\ scan.kind = "world" /\ scan.pc = "loop" /\ scan.i >= scan.n
  /\ scan' = [scan EXCEPT !.pc = "ret"]
  /\ UNCHANGED <<scene, col, disp, kern>>

BoxHitIter ==
  /\ scan.kind = "box" /\ scan.pc = "loop" /\ scan.i < scan.n
  /\ scan' = box_hit_iter(scan)
  /\ UNCHANGED <<scene, col, disp, kern>>

BoxHitReturn ==
  /\ scan.kind = "box" /\ scan.pc = "loop" /\ scan.i >= scan.n
  /\ scan' = [scan EXCEPT !.pc = "ret"]
  /\ UNCHANGED <<scene, col, disp, kern>>

ScanNext == HitWorldIter \/ HitWorldReturn \/ BoxHitIter \/ BoxHitReturn

SpecScan == ScanInit /\ [][ScanNext]_vars

\* ------------------------------------------------------------------------
\* Properties of the scans
\* ------------------------------------------------------------------------
\* every distance at which some primitive of the collection is intersected
\* inside the caller's interval
Candidates(st) ==
  UNION {Inside(st.prims[k], st.min, st.max) : k \in 1..st.n}

\* the first primitive, in traversal order, that is intersected at t
FirstAt(st, t) ==
  st.prims[SetMin({k \in 1..st.n : t \in st.prims[k].roots})]

\* the same collection scanned in the opposite order
Reversed(st) ==
  scan_run(ScanEntry(st.kind, Reverse(st.prims), st.min, st.max))

\* C1 (as amended): a finished scan reports a hit exactly when some
\* primitive is intersected inside (min, max); the record's t is the
\* globally smallest such distance and the record (and for the box the
\* material) is that of the first primitive in traversal order at that
\* distance; whether there is a hit, and its t, are the same when the
\* collection is scanned in the opposite order.
NearestHitScan ==
  scan.pc = "ret" =>
    /\ scan.hit_anything = (Candidates(scan) # {})
    /\ scan.hit_anything =>
         /\ scan.rec.t = SetMin(Candidates(scan))
         /\ scan.rec.id = FirstAt(scan, scan.rec.t).id
         /\ scan.rec.mat = FirstAt(scan, scan.rec.t).mat
         /\ scan.kind = "box" => scan.hit_material_type = scan.rec.mat
    /\ Reversed(scan).hit_anything = scan.hit_anything
    /\ Reversed(scan).rec.t = scan.rec.t

\* C1 witness: a finished scan in which a farther primitive was accepted
\* first and a nearer one, later in the order, replaced it
NearestHitScanWitness ==
  /\ scan.pc = "ret" /\ scan.hit_anything
  /\ \E j \in 1..scan.n, k \in 1..scan.n :
       /\ j < k
       /\ Inside(scan.prims[j], scan.min, scan.max) # {}
       /\ scan.rec.id = k
       /\ scan.rec.t < SetMin(Inside(scan.prims[j], scan.min, scan.max))

\* C1 (as stated): the record returned is that of the nearest primitive and
\* does not depend on the traversal order.
NearestHitOrderFree ==
  scan.pc = "ret" =>
    /\ scan.hit_anything = (Candidates(scan) # {})
    /\ scan.hit_anything => scan.rec.t = SetMin(Candidates(scan))
    /\ Reversed(scan).hit_anything = scan.hit_anything
    /\ Reversed(scan).rec = scan.rec
    /\ Reversed(scan).hit_material_type = scan.hit_material_type

====
